---- MODULE Spec2Model ----
(***************************************************************************)
(* Task runner: the worker's task routes (src/worker/tasks-app.ts) and the *)
(* browser's event subscription hook (react-app/hooks, useTaskEvents).     *)
(*                                                                         *)
(* The sandbox (execution context) is the environment: every call the      *)
(* worker awaits on it is split into its issue (appended to `calls`, put   *)
(* in `pending`) and its return, whose outcome the environment chooses.    *)
(* The code between two awaits runs in one step.                           *)
(***************************************************************************)
EXTENDS Integers, Sequences, FiniteSets, TLC

VARIABLES
    \* ---- createTask handler (tasks-app.ts:105-249)
    pc,            \* the await the handler is suspended at
    req,           \* validated request body {repoUrl, branch, prompt}
    taskId,        \* generated task identifier
    sandboxKey,    \* key handed to getSandbox
    calls,         \* calls issued on the sandbox so far, in order
    pending,       \* awaited calls that have not returned yet
    returned,      \* what each step's (last) call resolved or rejected with
    sessionId,     \* parsedSession.data.id
    resp,          \* HTTP response of the handler
    procs,         \* detached processes inside the sandbox
    now,           \* wall clock (Date.now), advanced by the environment
    createdAt,     \* clock reading at the start of the handler
    startedAt,     \* clock reading when the session was created
    \* ---- waitForOpenCode (tasks-app.ts:80-102)
    caller,        \* who called waitForOpenCode
    maxAttempts,
    intervalMs,
    i,             \* loop counter
    pollPc,        \* position inside waitForOpenCode
    isReady,       \* value returned by waitForOpenCode
    sleeps,        \* number of interval sleeps started
    \* ---- useTaskEvents (hooks/use-task-diff.ts:55-184)
    mounted,       \* the component using the hook is mounted
    hTaskId,       \* the hook's taskId argument ("" is undefined)
    hSessionId,    \* the hook's sessionId argument ("" is undefined)
    hEnabled,      \* options.enabled
    es,            \* readyState of the effect's EventSource
    events,        \* useState: accumulated TaskEvents
    isConnected,   \* useState
    error,         \* useState: "null" or the Error's message
    lastChunk,     \* event.data of the last message of the stream
    received,      \* number of messages the transport has delivered
    renders,       \* number of times the hook's arguments were set
    transport,     \* event.data of the messages of the effect's EventSource, in order
    prev,          \* readyStates of the EventSources of earlier effects
    memo,          \* value the derived-status callback returned last
    memoOf,        \* the event list that value was computed from
    memoRuns,      \* number of times the callback has run
    \* ---- TaskPage (pages/TaskPage.tsx:207-242)
    pageTask,      \* location.state.task
    abortStatus,   \* status of the useAbortTask mutation
    \* ---- the worker instance across requests
    handled,       \* task ids this instance has handled a creation for
    served,        \* number of requests this instance has answered
    issued         \* (time, suffix, id, sandbox key) of every creation started

serverVars == <<pc, req, taskId, sandboxKey, calls, pending, returned, sessionId,
                resp, procs, now, createdAt, startedAt>>
pollVars == <<caller, maxAttempts, intervalMs, i, pollPc, isReady, sleeps>>
clientVars == <<mounted, hTaskId, hSessionId, hEnabled, es, events, isConnected,
                error, lastChunk, received, renders, transport, prev>>
memoVars == <<memo, memoOf, memoRuns>>
pageVars == <<pageTask, abortStatus>>
instanceVars == <<handled, served, issued>>
otherVars == <<memoVars, pageVars, instanceVars>>
vars == <<serverVars, pollVars, clientVars, otherVars>>

\* ------------------------------------------------------------------ bounds
\* largest explicit maxAttempts argument of a direct waitForOpenCode call
MaxAttemptsArg == 4
\* messages delivered by the transport to one subscriber
MaxChunks == 2
\* times the hook's arguments are set (mount and re-renders)
MaxRenders == 2
\* requests one worker instance answers one after the other
MaxRequests == 2
\* createTask invocations started on one instance, and clock ticks meanwhile
MaxCreations == 3
\* runs of the derived-status callback
MaxMemoRuns == 2
MaxTicks == 2

\* ------------------------------------------------------- program constants
DefaultMaxAttempts == 30
DefaultIntervalMs == 1000

\* ------------------------------------------------------------ string tools
\* String.prototype.includes
Includes(s, sub) ==
    \E k \in 1..(Len(s) - Len(sub) + 1) : SubSeq(s, k, k + Len(sub) - 1) = sub

None == [t |-> "none"]

\* ------------------------------------------------ sandbox call outcomes
\* sandbox.exec resolves to {success, stdout, stderr} or rejects
Res(ok, out, err) == [kind |-> "result", success |-> ok, stdout |-> out, stderr |-> err]
Throw(m) == [kind |-> "throw", msg |-> m]
\* sandbox.startProcess resolves to a process handle or rejects
Handle(id) == [kind |-> "process", id |-> id]

ThrownMsgs == {"sandbox unavailable"}
Throws == {Throw(m) : m \in ThrownMsgs}

\* ------------------------------------------------------------ JSON values
JNull == [t |-> "null"]
JNum(n) == [t |-> "num", n |-> n]
JStr(s) == [t |-> "str", v |-> s]
JArr == [t |-> "arr"]
JObj(f) == [t |-> "obj", f |-> f]
NoFields == [k \in {} |-> JNull]

\* Text on a command's stdout: the JSON encoding of a value, or text that is
\* not JSON at all (raw).
Doc(v) == [json |-> TRUE, val |-> v]
Garbage(s) == [json |-> FALSE, raw |-> s]

\* JSON.parse: the value, or a SyntaxError with its message
JSONparse(text) ==
    IF text.json THEN [ok |-> TRUE, val |-> text.val]
    ELSE [ok |-> FALSE,
          msg |-> IF text.raw = "" THEN "Unexpected end of JSON input"
                  ELSE "Unexpected token " \o SubSeq(text.raw, 1, 1) \o " in JSON at position 0"]

\* JSON.stringify; members are written in the order id, error, message
KeyOrder == <<"id", "error", "message">>
RECURSIVE JSONstringify(_)
RECURSIVE Members(_, _)
Members(f, k) ==
    IF k > Len(KeyOrder) THEN ""
    ELSE LET key == KeyOrder[k]
             rest == Members(f, k + 1)
         IN IF key \in DOMAIN f
            THEN "\"" \o key \o "\":" \o JSONstringify(f[key])
                 \o (IF rest = "" THEN "" ELSE "," \o rest)
            ELSE rest
JSONstringify(v) ==
    CASE v.t = "null" -> "null"
      [] v.t = "num" -> ToString(v.n)
      [] v.t = "str" -> "\"" \o v.v \o "\""
      [] v.t = "arr" -> "[]"
      [] v.t = "obj" -> "{" \o Members(v.f, 1) \o "}"

\* ------------------------------------------------------- response schemas
IsStringField(v, key) == key \in DOMAIN v.f /\ v.f[key].t = "str"
IsOptionalStringField(v, key) == key \notin DOMAIN v.f \/ v.f[key].t = "str"

\* z.object({ id: z.string() }).safeParse(v).success
OpenCodeSessionResponseSchema(v) == v.t = "obj" /\ IsStringField(v, "id")

\* z.object({ error: z.string().optional(), message: z.string().optional() })
OpenCodeErrorResponseSchema(v) ==
    /\ v.t = "obj"
    /\ IsOptionalStringField(v, "error")
    /\ IsOptionalStringField(v, "message")

ErrorOrMessage_MessageFirst(v) ==
    IF "message" \in DOMAIN v.f /\ v.f["message"].v # "" THEN v.f["message"].v
    ELSE IF "error" \in DOMAIN v.f THEN v.f["error"].v ELSE ""
\* errorParsed.data.error || errorParsed.data.message  ("" when both are falsy)
Field(v, key) == IF key \in DOMAIN v.f THEN v.f[key].v ELSE ""
ErrorOrMessage(v) == IF Field(v, "error") # "" THEN Field(v, "error") ELSE Field(v, "message")

\* curlJson: {data, error} from the result of the curl exec
curlJson(r) ==
    IF ~r.success
    THEN [data |-> JNull, error |-> JStr("curl failed: " \o r.stderr)]
    ELSE LET parsed == JSONparse(r.stdout)
         IN IF parsed.ok
            THEN [data |-> parsed.val, error |-> JNull]
            ELSE [data |-> JNull, error |-> JStr("Failed to parse JSON: " \o parsed.msg)]

\* The throw statements of the session validation (tasks-app.ts:172-201):
\* the message thrown for a curlJson result, or JNull when none is thrown.
SessionError(sr) ==
    IF sr.error # JNull
    THEN JStr("Failed to create session: " \o sr.error.v)
    ELSE IF OpenCodeSessionResponseSchema(sr.data)
    THEN JNull
    ELSE IF OpenCodeErrorResponseSchema(sr.data) /\ ErrorOrMessage(sr.data) # ""
    THEN JStr("OpenCode API error: " \o ErrorOrMessage(sr.data))
    ELSE JStr("Unexpected session response format: " \o JSONstringify(sr.data))

\* --------------------------------------------------- environment's choices
RepoUrls == {"https://example.com/r.git", "https://example.com/s.git"}
Branches == {"main", "dev"}
Prompts == {"add readme"}
Requests == [repoUrl : RepoUrls, branch : Branches, prompt : Prompts]
StartTimes == {1000, 1001}
RandomSuffixes == {"k3x9a", "p07qz"}

CloneOutcomes ==
    { Res(TRUE, "", "Cloning into '/workspace/repo'..."),
      Res(FALSE, "", "fatal: repository not found"),
      Res(FALSE, "", "") } \cup Throws

StartOutcomes == {Handle("proc_1")} \cup Throws

ProbeOutcomes ==
    { Res(TRUE, "[]", ""),
      Res(TRUE, "not ready", ""),
      Res(FALSE, "", "exec timed out") } \cup Throws

SessionPayloads ==
    { JObj("id" :> JStr("ses_1")),
      JObj("id" :> JStr("ses_2")),
      JObj("id" :> JStr("ses_1") @@ "error" :> JStr("boom")),
      JObj("id" :> JNum(7)),
      JObj("id" :> JNum(7) @@ "message" :> JStr("no quota")),
      JObj("error" :> JStr("boom")),
      JObj("message" :> JStr("no quota")),
      JObj("error" :> JStr("boom") @@ "message" :> JStr("no quota")),
      JObj("error" :> JStr("") @@ "message" :> JStr("no quota")),
      JObj("error" :> JNum(5) @@ "message" :> JStr("no quota")),
      JObj("error" :> JStr("")),
      JObj(NoFields),
      JNull, JArr, JNum(7), JStr("ses_1") }

SessionOutcomes ==
    { Res(TRUE, Doc(p), "") : p \in SessionPayloads }
    \cup { Res(TRUE, Garbage("<html>"), ""),
           Res(TRUE, Garbage(""), ""),
           Res(FALSE, Garbage(""), "curl: (7) Failed to connect") }
    \cup Throws


\* ------------------------------------------------------------- the sandbox
\* One call on the sandbox stub obtained for `key`.
Call(op, step, key) == [op |-> op, step |-> step, key |-> key]

Steps == {"getSandbox", "clone", "agent", "probe", "session", "message", "abort",
          "diff", "events"}
NoProcs == [p \in {"agent", "message"} |-> "none"]

\* State of the process a call ran when the call returns: exec runs the
\* command to completion, startProcess returns while it is running.
ProcessAfter(op) == IF op = "exec" THEN "exited" ELSE "running"

\* ---------------------------------------------------------- the responses
ErrorResponse_Ok(msg) == [status |-> 200, body |-> [error |-> msg]]
\* c.json({ error }, 500) of the catch block
ErrorResponse(msg) == [status |-> 500, body |-> [error |-> msg]]

Task_KeyAsSession(id, r, ses, created, started) ==
    [id |-> id, status |-> "running", repoUrl |-> r.repoUrl, branch |-> r.branch,
     prompt |-> r.prompt, sessionId |-> id, createdAt |-> created, startedAt |-> started]
\* The Task record of the 201 response
Task(id, r, ses, created, started) ==
    [id |-> id, status |-> "running", repoUrl |-> r.repoUrl, branch |-> r.branch,
     prompt |-> r.prompt, sessionId |-> ses, createdAt |-> created, startedAt |-> started]
CreatedResponse_AsError(task) == [status |-> 500, body |-> [error |-> "dispatch failed"]]
CreatedResponse(task) == [status |-> 201, body |-> [data |-> task]]

NoResponse == [status |-> 0]

\* ---------------------------------------------------------------- initial
InitPoll ==
    /\ caller = "none"
    /\ maxAttempts = 0
    /\ intervalMs = 0
    /\ i = 0
    /\ pollPc = "idle"
    /\ isReady = FALSE
    /\ sleeps = 0

InitHandler(key) ==
    /\ pc = "start"
    /\ req = None
    /\ taskId = ""
    /\ sandboxKey = key
    /\ calls = <<>>
    /\ pending = {}
    /\ returned = [st \in Steps |-> None]
    /\ sessionId = JNull
    /\ resp = NoResponse
    /\ procs = NoProcs
    /\ now \in StartTimes
    /\ createdAt = 0
    /\ startedAt = 0

InitClient ==
    /\ mounted = FALSE
    /\ hTaskId = ""
    /\ hSessionId = ""
    /\ hEnabled = FALSE
    /\ es = "none"
    /\ events = <<>>
    /\ isConnected = FALSE
    /\ error = "null"
    /\ lastChunk = None
    /\ received = 0
    /\ renders = 0
    /\ transport = <<>>
    /\ prev = <<>>

InitOther ==
    /\ memo = None
    /\ memoOf = <<>>
    /\ memoRuns = 0
    /\ pageTask = None
    /\ abortStatus = "idle"
    /\ handled = {}
    /\ served = 0
    /\ issued = <<>>

Init == InitHandler("") /\ InitPoll /\ InitClient /\ InitOther

\* ------------------------------------------------- createTask: the handler
\* The catch block: the handler answers 500 with the error's message.
Fail(msg) ==
    /\ resp' = ErrorResponse(msg)
    /\ pc' = "done"

\* The handler issues an awaited call on its sandbox and suspends on it.
IssueOn_NoAwait(key, op, step) ==
    /\ calls' = Append(calls, Call(op, step, key))
    /\ pending' = pending \cup {step}
    /\ pc' = step
IssueOn(key, op, step) ==
    /\ calls' = Append(calls, Call(op, step, key))
    /\ pending' = (pending \ {pc}) \cup {step}
    /\ pc' = step
Issue(op, step) == IssueOn(sandboxKey, op, step)

\* The awaited call the handler is suspended at returns with outcome o.
Returns(step, o) ==
    /\ pc = step
    /\ returned' = [returned EXCEPT ![step] = o]
    /\ now' = now + 1

Settled_Cleanup ==
    /\ pending' = pending \ {pc}
    /\ calls' = Append(calls, Call("killAllProcesses", "cleanup", sandboxKey))
\* Nothing is issued: the returned call leaves the pending set.
Settled == pending' = pending \ {pc} /\ UNCHANGED calls

NewTaskId_TimeOnly(time, rnd) == "task-" \o ToString(time)
\* `task-${Date.now()}-${Math.random().toString(36).substring(7)}`
NewTaskId(time, rnd) == "task-" \o ToString(time) \o "-" \o rnd

CloneFailed_Never(o) == FALSE
\* if (!cloneResult.success)
CloneFailed(o) == ~o.success
CloneErrorMessage_Stdout(o) == "Failed to clone repository: " \o o.stdout
\* `Failed to clone repository: ${cloneResult.stderr}`
CloneErrorMessage(o) == "Failed to clone repository: " \o o.stderr

\* if (result.success && !result.stdout.includes("not ready"))
ProbeReady(o) == o.success /\ ~Includes(o.stdout, "not ready")

DispatchOp_Exec == "exec"
\* The sandbox operation the prompt is dispatched with
DispatchOp == "startProcess"

\* POST /tasks up to the first await: task id, getSandbox, clone command.
CreateTask(r, rnd, acquired) ==
    /\ pc = "start"
    /\ req' = r
    /\ taskId' = NewTaskId(now, rnd)
    /\ createdAt' = now
    /\ returned' = [returned EXCEPT !["getSandbox"] = acquired]
    /\ IF acquired.kind = "throw"
       THEN /\ Fail(acquired.msg)
            /\ UNCHANGED <<sandboxKey, calls, pending>>
       ELSE /\ sandboxKey' = taskId'
            /\ IssueOn(taskId', "exec", "clone")
            /\ UNCHANGED resp
    /\ UNCHANGED <<sessionId, procs, now, startedAt>>
    /\ UNCHANGED <<pollVars, clientVars, otherVars>>

\* What the caller of waitForOpenCode does with the value it returns:
\* createTask throws on false and otherwise issues the session-creation curl
\* (the exec of curlJson); a direct caller just gets the value.
WaitReturned(who, ready) ==
    IF who = "createTask"
    THEN IF ready
         THEN Issue("exec", "session") /\ UNCHANGED resp
         ELSE Fail("OpenCode server failed to start within timeout") /\ Settled
    ELSE pc' = "done" /\ Settled /\ UNCHANGED resp

\* What the caller does with an exception leaving waitForOpenCode.
WaitThrew(who, msg) ==
    IF who = "createTask"
    THEN Fail(msg) /\ Settled
    ELSE pc' = "done" /\ Settled /\ UNCHANGED resp

\* waitForOpenCode evaluates its loop condition with counter value iv:
\* it issues the next probe, or leaves the loop and returns false.
LoopTop(who, iv, m) ==
    /\ i' = iv
    /\ IF iv < m
       THEN /\ pollPc' = "exec"
            /\ Issue("exec", "probe")
            /\ UNCHANGED <<isReady, resp>>
       ELSE /\ pollPc' = "returned"
            /\ isReady' = FALSE
            /\ WaitReturned(who, FALSE)

\* Entry of waitForOpenCode(sandbox, m, ms).
EnterWait(who, m, ms) ==
    /\ caller' = who
    /\ maxAttempts' = m
    /\ intervalMs' = ms
    /\ LoopTop(who, 0, m)

\* The clone exec returns; on success the agent server is started.
CloneReturns(o) ==
    /\ Returns("clone", o)
    /\ IF o.kind = "throw"
       THEN Fail(o.msg) /\ Settled
       ELSE IF CloneFailed(o)
       THEN Fail(CloneErrorMessage(o)) /\ Settled
       ELSE Issue("startProcess", "agent") /\ UNCHANGED resp
    /\ UNCHANGED <<req, taskId, sandboxKey, sessionId, procs, createdAt, startedAt>>
    /\ UNCHANGED <<pollVars, clientVars, otherVars>>

\* startProcess of the agent server returns; on success the handler enters
\* waitForOpenCode(sandbox) with the default budget.
AgentStartReturns(o) ==
    /\ Returns("agent", o)
    /\ IF o.kind = "throw"
       THEN /\ Fail(o.msg) /\ Settled
            /\ UNCHANGED procs
            /\ UNCHANGED pollVars
       ELSE /\ procs' = [procs EXCEPT !["agent"] = ProcessAfter("startProcess")]
            /\ EnterWait("createTask", DefaultMaxAttempts, DefaultIntervalMs)
            /\ UNCHANGED sleeps
    /\ UNCHANGED <<req, taskId, sandboxKey, sessionId, createdAt, startedAt>>
    /\ UNCHANGED <<clientVars, otherVars>>

\* One probe of waitForOpenCode returns.
ProbeReturns(o) ==
    /\ pollPc = "exec"
    /\ Returns("probe", o)
    /\ IF o.kind = "throw"
       THEN /\ pollPc' = "thrown"
            /\ WaitThrew(caller, o.msg)
            /\ UNCHANGED <<isReady, sleeps>>
       ELSE IF ProbeReady(o)
       THEN /\ pollPc' = "returned"
            /\ isReady' = TRUE
            /\ WaitReturned(caller, TRUE)
            /\ UNCHANGED sleeps
       ELSE /\ pollPc' = "sleep"
            /\ sleeps' = sleeps + 1
            /\ Settled
            /\ UNCHANGED <<pc, resp, isReady>>
    /\ UNCHANGED <<req, taskId, sandboxKey, sessionId, procs, createdAt, startedAt>>
    /\ UNCHANGED <<caller, maxAttempts, intervalMs, i>>
    /\ UNCHANGED <<clientVars, otherVars>>

\* The interval timer fires: i++ and the loop condition is evaluated again.
SleepElapses ==
    /\ pc = "probe"
    /\ pollPc = "sleep"
    /\ now' = now + 1
    /\ LoopTop(caller, i + 1, maxAttempts)
    /\ UNCHANGED <<req, taskId, sandboxKey, returned, sessionId, procs, createdAt,
                   startedAt>>
    /\ UNCHANGED <<caller, maxAttempts, intervalMs, sleeps>>
    /\ UNCHANGED <<clientVars, otherVars>>

\* The session-creation curl returns; the response is classified and, when it
\* has the expected shape, the prompt is dispatched.
SessionReturns(o) ==
    /\ Returns("session", o)
    /\ IF o.kind = "throw"
       THEN /\ Fail(o.msg) /\ Settled
            /\ UNCHANGED <<sessionId, startedAt>>
       ELSE LET sessionResult == curlJson(o)
                err == SessionError(sessionResult)
            IN IF err # JNull
               THEN /\ Fail(err.v) /\ Settled
                    /\ UNCHANGED <<sessionId, startedAt>>
               ELSE /\ sessionId' = sessionResult.data.f["id"]
                    /\ startedAt' = now'
                    /\ Issue(DispatchOp, "message")
                    /\ UNCHANGED resp
    /\ UNCHANGED <<req, taskId, sandboxKey, procs, createdAt>>
    /\ UNCHANGED <<pollVars, clientVars, otherVars>>

\* The call dispatching the prompt returns: the handler answers 201.
MessageStartReturns(o) ==
    /\ Returns("message", o)
    /\ Settled
    /\ IF o.kind = "throw"
       THEN /\ Fail(o.msg)
            /\ UNCHANGED procs
       ELSE /\ procs' = [procs EXCEPT !["message"] = ProcessAfter(DispatchOp)]
            /\ resp' = CreatedResponse(Task(taskId, req, sessionId.v, createdAt, startedAt))
            /\ pc' = "done"
    /\ UNCHANGED <<req, taskId, sandboxKey, sessionId, createdAt, startedAt>>
    /\ UNCHANGED <<pollVars, clientVars, otherVars>>

\* A detached process ends by itself (the agent server stops; the message
\* curl returns once the agent has finished processing the prompt).
ProcessExits(p) ==
    /\ procs[p] = "running"
    /\ procs' = [procs EXCEPT ![p] = "exited"]
    /\ UNCHANGED <<pc, req, taskId, sandboxKey, calls, pending, returned, sessionId,
                   resp, now, createdAt, startedAt>>
    /\ UNCHANGED <<pollVars, clientVars, otherVars>>

\* A detached process ends with an error (the agent server crashes; the
\* message curl fails or the agent reports an error for the prompt).
ProcessFails(p) ==
    /\ procs[p] = "running"
    /\ procs' = [procs EXCEPT ![p] = "failed"]
    /\ UNCHANGED <<pc, req, taskId, sandboxKey, calls, pending, returned, sessionId,
                   resp, now, createdAt, startedAt>>
    /\ UNCHANGED <<pollVars, clientVars, otherVars>>

Next ==
    \/ \E r \in Requests, rnd \in RandomSuffixes, a \in {Handle("sandbox")} \cup Throws :
          CreateTask(r, rnd, a)
    \/ \E o \in CloneOutcomes : CloneReturns(o)
    \/ \E o \in StartOutcomes : AgentStartReturns(o)
    \/ \E o \in ProbeOutcomes : ProbeReturns(o)
    \/ SleepElapses
    \/ \E o \in SessionOutcomes : SessionReturns(o)
    \/ \E o \in StartOutcomes : MessageStartReturns(o)
    \/ \E p \in {"agent", "message"} : ProcessExits(p)
    \/ \E p \in {"agent", "message"} : ProcessFails(p)

Spec == Init /\ [][Next]_vars

\* Every awaited call on the sandbox eventually returns and every interval
\* timer eventually fires.
CallReturns ==
    \/ \E o \in CloneOutcomes : CloneReturns(o)
    \/ \E o \in StartOutcomes : AgentStartReturns(o)
    \/ \E o \in ProbeOutcomes : ProbeReturns(o)
    \/ SleepElapses
    \/ \E o \in SessionOutcomes : SessionReturns(o)
    \/ \E o \in StartOutcomes : MessageStartReturns(o)

SpecFair == Spec /\ WF_vars(CallReturns)

\* ------------------------------------------- waitForOpenCode called alone
InitDirect == InitHandler("sandbox-1") /\ InitPoll /\ InitClient /\ InitOther

\* waitForOpenCode(sandbox, m, ms) called on its own.
CallWaitForOpenCode(m, ms) ==
    /\ pc = "start"
    /\ EnterWait("direct", m, ms)
    /\ UNCHANGED <<req, taskId, sandboxKey, returned, sessionId, procs, now,
                   createdAt, startedAt>>
    /\ UNCHANGED sleeps
    /\ UNCHANGED <<clientVars, otherVars>>

NextPoll ==
    \/ \E m \in 0..MaxAttemptsArg, ms \in {0, DefaultIntervalMs} :
          CallWaitForOpenCode(m, ms)
    \/ \E o \in ProbeOutcomes : ProbeReturns(o)
    \/ SleepElapses

SpecPoll == InitDirect /\ [][NextPoll]_vars

\* ------------------------------------------------- useTaskEvents: helpers
JUndef == [t |-> "undef"]

\* JavaScript truthiness of a JSON value or undefined
Truthy(v) ==
    CASE v.t = "str" -> v.v # ""
      [] v.t = "num" -> v.n # 0
      [] v.t \in {"obj", "arr"} -> TRUE
      [] OTHER -> FALSE

\* a || b
OrElse(a, b) == IF Truthy(a) THEN a ELSE b

\* o.key for an object's members f
Get(f, key) == IF key \in DOMAIN f THEN f[key] ELSE JUndef

\* v?.key
OptGet(v, key) == IF v.t = "obj" THEN Get(v.f, key) ELSE JUndef

\* String.prototype.startsWith, slice(n), and the leading part of trim()
StartsWith(s, p) == Len(s) >= Len(p) /\ SubSeq(s, 1, Len(p)) = p
Slice(s, n) == SubSeq(s, n + 1, Len(s))
RECURSIVE TrimStart(_)
TrimStart(s) ==
    IF s # "" /\ SubSeq(s, 1, 1) \in {" ", "\n"} THEN TrimStart(Slice(s, 1)) ELSE s

\* A line of the agent's event feed as carried in wrapper.data: the text
\* before the JSON payload (head) and the payload text (body).
Line(head, body) == [t |-> "line", head |-> head, body |-> body]
\* The transport envelope {"type": ..., "data": ...}
Wrapper(type, data) == [t |-> "obj", type |-> type, data |-> data]

\* The TaskEvent built from a parsed native event (use-task-diff.ts:107-121).
\* Reading .sessionID of a missing `properties` throws a TypeError.
CanNormalize(ev) == ev.t = "obj" /\ Get(ev.f, "properties").t = "obj"
Normalize_PartFirst(ev) ==
    LET p == ev.f["properties"].f
        part == Get(p, "part")
    IN [type |-> Get(ev.f, "type"),
        properties |->
            p @@ ( "sessionId" :> OrElse(OptGet(part, "sessionID"), Get(p, "sessionID"))
                   @@ "messageId" :> OrElse(OptGet(part, "messageID"), Get(p, "messageID"))
                   @@ "part" :> part )]
Normalize(ev) ==
    LET p == ev.f["properties"].f
        part == Get(p, "part")
    IN [type |-> Get(ev.f, "type"),
        properties |->
            p @@ ( "sessionId" :> OrElse(Get(p, "sessionID"), OptGet(part, "sessionID"))
                   @@ "messageId" :> OrElse(Get(p, "messageID"), OptGet(part, "messageID"))
                   @@ "part" :> part )]

PassesFilter_OnlyEqual(taskEvent, sid) ==
    taskEvent.properties["sessionId"] = JStr(sid)
\* The session filter (use-task-diff.ts:124-127)
PassesFilter(taskEvent, sid) ==
    \/ ~Truthy(taskEvent.properties["sessionId"])
    \/ taskEvent.properties["sessionId"] = JStr(sid)

Dropped == [ok |-> FALSE]
\* The body of onmessage up to the TaskEvent: every `return` and every
\* exception caught by the catch block yields Dropped.
Pipeline(data) ==
    LET outer == JSONparse(data)
    IN IF ~outer.ok THEN Dropped
       ELSE LET wrapper == outer.val
            IN IF wrapper.t # "obj" THEN Dropped
               ELSE IF wrapper.type # "stdout" \/ wrapper.data.t # "line" THEN Dropped
               ELSE IF wrapper.data.head = "" /\ wrapper.data.body = Garbage("") THEN Dropped
               ELSE LET sseHead == TrimStart(wrapper.data.head)
                    IN IF ~StartsWith(sseHead, "data: ") THEN Dropped
                       ELSE LET rest == Slice(sseHead, 6)
                                jsonStr == IF rest = "" THEN wrapper.data.body
                                           ELSE Garbage(rest)
                            IN IF jsonStr = Garbage("") THEN Dropped
                               ELSE LET inner == JSONparse(jsonStr)
                                    IN IF ~inner.ok THEN Dropped
                                       ELSE IF ~CanNormalize(inner.val) THEN Dropped
                                       ELSE [ok |-> TRUE, ev |-> Normalize(inner.val)]

\* ------------------------------------------ what the agent's feed carries
\* ------------------------------------------- useTaskEvents: derived status
\* let status = "unknown"; let complete = false (use-task-diff.ts:152-153)
InitialStatus == [status |-> "unknown", complete |-> FALSE]

StatusOfType_ElseUnknown(statusType, status) ==
    IF statusType = JStr("busy") THEN "busy"
    ELSE IF statusType = JStr("idle") THEN "idle"
    ELSE "unknown"
\* the inner if / else-if on event.properties.status?.type
StatusOfType(statusType, status) ==
    IF statusType = JStr("busy") THEN "busy"
    ELSE IF statusType = JStr("idle") THEN "idle"
    ELSE status

DeriveStep_StatusReopens(acc, event) ==
    IF event.type = JStr("session.status")
    THEN [status |-> StatusOfType(OptGet(Get(event.properties, "status"), "type"), acc.status),
          complete |-> FALSE]
    ELSE IF event.type = JStr("session.idle") THEN [status |-> "completed", complete |-> TRUE]
    ELSE IF event.type = JStr("error") THEN [status |-> "error", complete |-> TRUE]
    ELSE acc
\* One iteration of `for (const event of events)` on the pair (status, complete)
DeriveStep(acc, event) ==
    IF event.type = JStr("session.status")
    THEN [acc EXCEPT !.status =
              StatusOfType(OptGet(Get(event.properties, "status"), "type"), acc.status)]
    ELSE IF event.type = JStr("session.idle") THEN [status |-> "completed", complete |-> TRUE]
    ELSE IF event.type = JStr("error") THEN [status |-> "error", complete |-> TRUE]
    ELSE acc

\* The useMemo callback: the loop over the first k events of evs
RECURSIVE DeriveLoop(_, _)
DeriveLoop(evs, k) ==
    IF k = 0 THEN InitialStatus ELSE DeriveStep(DeriveLoop(evs, k - 1), evs[k])

\* The hook's derivedStatus and isComplete, memoised on `events`
derivedStatus == DeriveLoop(events, Len(events)).status
isComplete_FromStatus == derivedStatus \in {"completed", "error"}
isComplete == DeriveLoop(events, Len(events)).complete

\* Native events name their fields as the agent does (sessionID, messageID,
\* part, status, delta).
Ev(type, props) == JObj("type" :> JStr(type) @@ "properties" :> JObj(props))
Busy == JObj("type" :> JStr("busy"))
Idle == JObj("type" :> JStr("idle"))
Retry == JObj("type" :> JStr("retry"))

NativeEvents ==
    { Ev("session.status", "sessionID" :> JStr("ses_1") @@ "status" :> Busy),
      Ev("session.status", "sessionID" :> JStr("ses_1") @@ "status" :> Idle),
      Ev("session.status", "sessionID" :> JStr("ses_1") @@ "status" :> Retry),
      Ev("session.idle", "sessionID" :> JStr("ses_1")),
      Ev("session.idle", "sessionID" :> JStr("ses_2")),
      Ev("message.part.updated",
         "part" :> JObj("sessionID" :> JStr("ses_2") @@ "messageID" :> JStr("msg_1"))
         @@ "delta" :> JStr("hi")),
      Ev("message.part.updated",
         "part" :> JObj("sessionID" :> JStr("ses_1") @@ "messageID" :> JStr("msg_1"))
         @@ "messageID" :> JStr("msg_2")),
      Ev("error", "sessionID" :> JStr("ses_1") @@ "part" :> JObj("sessionID" :> JStr("ses_2"))),
      Ev("error", "sessionID" :> JNull @@ "part" :> JObj("sessionID" :> JStr("ses_2"))),
      Ev("server.connected", NoFields) }

Chunks ==
    { Doc(Wrapper("stdout", Line("data: ", Doc(e)))) : e \in NativeEvents }
    \cup
    { Garbage("{\"type\":\"std"),
      Doc(JNull),
      Doc(Wrapper("stderr", Line("data: ", Doc(Ev("session.idle", NoFields))))),
      Doc(Wrapper("stdout", JUndef)),
      Doc(Wrapper("stdout", Line("", Garbage("")))),
      Doc(Wrapper("stdout", Line("event: message", Garbage("")))),
      Doc(Wrapper("stdout", Line("data: ", Garbage("")))),
      Doc(Wrapper("stdout", Line("data: ", Garbage("{\"type\":")))),
      Doc(Wrapper("stdout", Line("data: ", Doc(JNull)))),
      Doc(Wrapper("stdout", Line("data: ", Doc(JObj("type" :> JStr("session.idle")))))),
      Doc(Wrapper("stdout", Line("\n data: ", Doc(Ev("session.idle", NoFields))))) }

TaskIdArgs == {"", "task-1"}
SessionIdArgs == {"", "ses_1", "ses_2"}

\* ------------------------------------------------ useTaskEvents: actions
\* The effect ran with all three arguments truthy and created an EventSource.
HasStream(tid, sid, en) == tid # "" /\ sid # "" /\ en

CloseStream_Leak(state) == state
\* eventSource.close() in the effect's cleanup (use-task-diff.ts:144-147)
CloseStream(state) == "closed"

\* The component renders the hook with arguments (tid, sid, en): on mount, or
\* when a dependency changed, the previous effect's cleanup runs and then the
\* effect (use-task-diff.ts:70-148).
SetArgs(tid, sid, en) ==
    /\ renders < MaxRenders
    /\ IF mounted THEN <<tid, sid, en>> # <<hTaskId, hSessionId, hEnabled>>
                  ELSE renders = 0
    /\ renders' = renders + 1
    /\ mounted' = TRUE
    /\ hTaskId' = tid
    /\ hSessionId' = sid
    /\ hEnabled' = en
    /\ isConnected' = IF mounted /\ HasStream(hTaskId, hSessionId, hEnabled)
                      THEN FALSE ELSE isConnected
    /\ LET old == IF mounted /\ HasStream(hTaskId, hSessionId, hEnabled)
                  THEN CloseStream(es) ELSE es
       IN IF HasStream(tid, sid, en)
          THEN /\ es' = "connecting"
               /\ prev' = IF es = "none" THEN prev ELSE Append(prev, old)
          ELSE /\ es' = old
               /\ prev' = prev
    /\ lastChunk' = None
    /\ transport' = <<>>
    /\ UNCHANGED <<events, error, received>>
    /\ UNCHANGED <<serverVars, pollVars, otherVars>>

\* The component unmounts: the effect's cleanup runs.
Unmount ==
    /\ mounted
    /\ mounted' = FALSE
    /\ IF HasStream(hTaskId, hSessionId, hEnabled)
       THEN es' = CloseStream(es) /\ isConnected' = FALSE
       ELSE UNCHANGED <<es, isConnected>>
    /\ UNCHANGED <<hTaskId, hSessionId, hEnabled, events, error, lastChunk,
                   received, renders, transport, prev>>
    /\ UNCHANGED <<serverVars, pollVars, otherVars>>

OnOpen_KeepsError ==
    /\ mounted
    /\ es = "connecting"
    /\ es' = "open"
    /\ isConnected' = TRUE
    /\ UNCHANGED <<mounted, hTaskId, hSessionId, hEnabled, events, error, lastChunk,
                   received, renders, transport, prev>>
    /\ UNCHANGED <<serverVars, pollVars, otherVars>>
\* eventSource.onopen
OnOpen ==
    /\ mounted
    /\ es = "connecting"
    /\ es' = "open"
    /\ isConnected' = TRUE
    /\ error' = "null"
    /\ UNCHANGED <<mounted, hTaskId, hSessionId, hEnabled, events, lastChunk,
                   received, renders, transport, prev>>
    /\ UNCHANGED <<serverVars, pollVars, otherVars>>

OnMessage_SurfacesError(data) ==
    /\ mounted
    /\ es = "open"
    /\ received < MaxChunks
    /\ received' = received + 1
    /\ lastChunk' = data
    /\ transport' = Append(transport, data)
    /\ LET r == Pipeline(data)
       IN /\ events' = IF r.ok /\ PassesFilter(r.ev, hSessionId)
                       THEN Append(events, r.ev)
                       ELSE events
          /\ error' = IF r.ok THEN error ELSE "Malformed chunk"
    /\ UNCHANGED <<mounted, hTaskId, hSessionId, hEnabled, es, isConnected,
                   renders, prev>>
    /\ UNCHANGED <<serverVars, pollVars, otherVars>>
\* eventSource.onmessage with event.data = data
OnMessage(data) ==
    /\ mounted
    /\ es = "open"
    /\ received < MaxChunks
    /\ received' = received + 1
    /\ lastChunk' = data
    /\ transport' = Append(transport, data)
    /\ LET r == Pipeline(data)
       IN events' = IF r.ok /\ PassesFilter(r.ev, hSessionId)
                    THEN Append(events, r.ev)
                    ELSE events
    /\ UNCHANGED <<mounted, hTaskId, hSessionId, hEnabled, es, isConnected, error,
                   renders, prev>>
    /\ UNCHANGED <<serverVars, pollVars, otherVars>>

OnError_Reconnects ==
    /\ mounted
    /\ es \in {"connecting", "open"}
    /\ isConnected' = FALSE
    /\ error' = "Connection lost"
    /\ es' = "connecting"
    /\ UNCHANGED <<mounted, hTaskId, hSessionId, hEnabled, events, lastChunk,
                   received, renders, transport, prev>>
    /\ UNCHANGED <<serverVars, pollVars, otherVars>>
\* eventSource.onerror
OnError ==
    /\ mounted
    /\ es \in {"connecting", "open"}
    /\ isConnected' = FALSE
    /\ error' = "Connection lost"
    /\ es' = "closed"
    /\ UNCHANGED <<mounted, hTaskId, hSessionId, hEnabled, events, lastChunk,
                   received, renders, transport, prev>>
    /\ UNCHANGED <<serverVars, pollVars, otherVars>>

\* clearEvents
ClearEvents ==
    /\ mounted
    /\ events # <<>>
    /\ events' = <<>>
    /\ UNCHANGED <<mounted, hTaskId, hSessionId, hEnabled, es, isConnected, error,
                   lastChunk, received, renders, transport, prev>>
    /\ UNCHANGED <<serverVars, pollVars, otherVars>>

NextSub ==
    \/ \E tid \in TaskIdArgs, sid \in SessionIdArgs, en \in BOOLEAN : SetArgs(tid, sid, en)
    \/ Unmount
    \/ OnOpen
    \/ \E d \in Chunks : OnMessage(d)
    \/ OnError
    \/ ClearEvents

SpecSub == Init /\ [][NextSub]_vars

\* ------------------------------------- the derived-status callback at work
Recompute_Drains ==
    /\ mounted
    /\ memoRuns < MaxMemoRuns
    /\ memoRuns' = memoRuns + 1
    /\ memo' = DeriveLoop(events, Len(events))
    /\ memoOf' = events
    /\ events' = <<>>
    /\ UNCHANGED <<mounted, hTaskId, hSessionId, hEnabled, es, isConnected, error,
                   lastChunk, received, renders, transport, prev>>
    /\ UNCHANGED <<pageVars, instanceVars, serverVars, pollVars>>
\* React runs the useMemo callback during a render (and may run it again on
\* the same list): it loops over `events` and returns the pair.
Recompute ==
    /\ mounted
    /\ memoRuns < MaxMemoRuns
    /\ memoRuns' = memoRuns + 1
    /\ memo' = DeriveLoop(events, Len(events))
    /\ memoOf' = events
    /\ UNCHANGED <<pageVars, instanceVars, serverVars, pollVars, clientVars>>

\* A subscriber of session ses_1 whose derived status is computed as events
\* arrive.
NextFold ==
    \/ SetArgs("task-1", "ses_1", TRUE)
    \/ OnOpen
    \/ \E d \in Chunks : OnMessage(d)
    \/ Recompute

SpecFold == Init /\ [][NextFold]_vars

\* ------------------------------------------- POST /tasks/:id/abort handler
\* c.req.param("id") and c.req.query("sessionId") (undefined when missing)
AbortTaskIds == {"task-1000-k3x9a", "task-1001-p07qz", "no-such-task"}
AbortSessionIds == {JUndef, JStr(""), JStr("ses_1"), JStr("ses_2")}
AbortRequests == [taskId : AbortTaskIds, sessionId : AbortSessionIds]

\* what the agent's abort endpoint, or curl, answers
AbortOutcomes ==
    { Res(TRUE, Doc(JObj("ok" :> JStr("true"))), ""),
      Res(TRUE, Doc(JObj("error" :> JStr("session not found"))), ""),
      Res(TRUE, Garbage("<html>"), ""),
      Res(TRUE, Garbage(""), ""),
      Res(FALSE, Garbage(""), "curl: (7) Failed to connect") }
    \cup Throws

AbortRejected_MissingOnly(sid) == sid = JUndef
\* if (!sessionId)
AbortRejected(sid) == ~Truthy(sid)

\* c.json({ error: "sessionId query parameter required" }, 400)
SessionRequired == [status |-> 400, body |-> [error |-> "sessionId query parameter required"]]
\* c.json({ data: { success: true, taskId } })
Aborted(id) == [status |-> 200, body |-> [data |-> [success |-> TRUE, taskId |-> id]]]
\* The route has no try/catch: an exception leaves the handler and the
\* framework answers for it.
Uncaught(msg) == [status |-> 500, body |-> [error |-> "Internal Server Error"]]

\* `http://localhost:4096/session/${sessionId}/abort`
AbortUrl(sid) == "http://localhost:4096/session/" \o sid \o "/abort"
\* the exec of curlJson(sandbox, "POST", url) on the sandbox of key
AbortCall(key, sid) ==
    [op |-> "exec", step |-> "abort", key |-> key, method |-> "POST", url |-> AbortUrl(sid)]

\* POST /tasks/:id/abort up to the await of curlJson's exec.
AbortTask(r, acquired) ==
    /\ pc \in {"start", "ready"}
    /\ req' = r
    /\ taskId' = r.taskId
    /\ sessionId' = r.sessionId
    /\ IF AbortRejected(r.sessionId)
       THEN /\ resp' = SessionRequired
            /\ pc' = "done"
            /\ UNCHANGED <<sandboxKey, calls, pending, returned>>
       ELSE /\ returned' = [returned EXCEPT !["getSandbox"] = acquired]
            /\ IF acquired.kind = "throw"
               THEN /\ resp' = Uncaught(acquired.msg)
                    /\ pc' = "done"
                    /\ UNCHANGED <<sandboxKey, calls, pending>>
               ELSE /\ sandboxKey' = r.taskId
                    /\ calls' = Append(calls, AbortCall(r.taskId, r.sessionId.v))
                    /\ pending' = (pending \ {pc}) \cup {"abort"}
                    /\ pc' = "abort"
                    /\ UNCHANGED resp
    /\ UNCHANGED <<procs, now, createdAt, startedAt>>
    /\ UNCHANGED <<pollVars, clientVars, otherVars>>

AbortReturns_ChecksTable(o) ==
    /\ Returns("abort", o)
    /\ resp' = IF o.kind = "throw" THEN Uncaught(o.msg)
               ELSE IF taskId \in handled THEN Aborted(taskId)
               ELSE [status |-> 404, body |-> [error |-> "Task not found"]]
    /\ pc' = "done"
    /\ Settled
    /\ UNCHANGED <<req, taskId, sandboxKey, sessionId, procs, createdAt, startedAt>>
    /\ UNCHANGED <<pollVars, clientVars, otherVars>>
\* The exec of curlJson returns: its result is not looked at.
AbortReturns(o) ==
    /\ Returns("abort", o)
    /\ resp' = IF o.kind = "throw" THEN Uncaught(o.msg) ELSE Aborted(taskId)
    /\ pc' = "done"
    /\ Settled
    /\ UNCHANGED <<req, taskId, sandboxKey, sessionId, procs, createdAt, startedAt>>
    /\ UNCHANGED <<pollVars, clientVars, otherVars>>

NextAbort ==
    \/ \E r \in AbortRequests, a \in {Handle("sandbox")} \cup Throws : AbortTask(r, a)
    \/ \E o \in AbortOutcomes : AbortReturns(o)

SpecAbort == Init /\ [][NextAbort]_vars

\* --------------------------------------------- GET /tasks/:id/diff handler
DiffRequests == [taskId : AbortTaskIds, route : {"diff"}]

\* what `git diff HEAD` in /workspace/repo comes to: changes, no change, no
\* repository or no such directory, a diff cut short by an error, a
\* sandbox that cannot be reached
DiffOutcomes ==
    { Res(TRUE, "diff --git a/README.md b/README.md\n+hello\n", ""),
      Res(TRUE, "", ""),
      Res(FALSE, "", "fatal: not a git repository"),
      Res(FALSE, "", "cwd /workspace/repo does not exist"),
      Res(FALSE, "diff --git a/a.txt b/a.txt\n", "fatal: unable to read 5f2c") }
    \cup Throws

\* sandbox.exec("git diff HEAD", { cwd: "/workspace/repo" })
DiffCall(key) ==
    [op |-> "exec", step |-> "diff", key |-> key,
     command |-> "git diff HEAD", cwd |-> "/workspace/repo"]

\* result.stdout || ""
DiffText(o) == IF o.stdout # "" THEN o.stdout ELSE ""

\* c.json({ data: { diff, taskId } })
Diffed(id, text) == [status |-> 200, body |-> [data |-> [diff |-> text, taskId |-> id]]]

\* GET /tasks/:id/diff up to the await of the exec.
DiffTask(r, acquired) ==
    /\ pc \in {"start", "ready"}
    /\ req' = r
    /\ taskId' = r.taskId
    /\ returned' = [returned EXCEPT !["getSandbox"] = acquired]
    /\ IF acquired.kind = "throw"
       THEN /\ resp' = Uncaught(acquired.msg)
            /\ pc' = "done"
            /\ UNCHANGED <<sandboxKey, calls, pending>>
       ELSE /\ sandboxKey' = r.taskId
            /\ calls' = Append(calls, DiffCall(r.taskId))
            /\ pending' = (pending \ {pc}) \cup {"diff"}
            /\ pc' = "diff"
            /\ UNCHANGED resp
    /\ UNCHANGED <<sessionId, procs, now, createdAt, startedAt>>
    /\ UNCHANGED <<pollVars, clientVars, otherVars>>

\* The exec returns: its standard output is the diff, whatever its success.
DiffReturns(o) ==
    /\ Returns("diff", o)
    /\ resp' = IF o.kind = "throw" THEN Uncaught(o.msg) ELSE Diffed(taskId, DiffText(o))
    /\ pc' = "done"
    /\ Settled
    /\ UNCHANGED <<req, taskId, sandboxKey, sessionId, procs, createdAt, startedAt>>
    /\ UNCHANGED <<pollVars, clientVars, otherVars>>

\* ------------------------------------------- GET /tasks/:id/events handler
EventsRequests == [taskId : AbortTaskIds, route : {"events"}]

\* sandbox.execStream resolves to a stream of the command's output or rejects
Stream(id) == [kind |-> "stream", id |-> id]
StreamOutcomes == {Stream("curl-output")} \cup Throws

\* sandbox.execStream("curl -N -H 'Accept: text/event-stream' ...")
EventsCall(key) ==
    [op |-> "execStream", step |-> "events", key |-> key,
     command |-> "curl -N -H 'Accept: text/event-stream' 'http://localhost:4096/event'"]

\* new Response(stream, { headers })
Streamed(stream) ==
    [status |-> 200, body |-> stream,
     headers |-> [contentType |-> "text/event-stream", cacheControl |-> "no-cache",
                  connection |-> "keep-alive"]]

\* GET /tasks/:id/events up to the await of execStream.
EventsTask(r, acquired) ==
    /\ pc \in {"start", "ready"}
    /\ req' = r
    /\ taskId' = r.taskId
    /\ returned' = [returned EXCEPT !["getSandbox"] = acquired]
    /\ IF acquired.kind = "throw"
       THEN /\ resp' = Uncaught(acquired.msg)
            /\ pc' = "done"
            /\ UNCHANGED <<sandboxKey, calls, pending>>
       ELSE /\ sandboxKey' = r.taskId
            /\ calls' = Append(calls, EventsCall(r.taskId))
            /\ pending' = (pending \ {pc}) \cup {"events"}
            /\ pc' = "events"
            /\ UNCHANGED resp
    /\ UNCHANGED <<sessionId, procs, now, createdAt, startedAt>>
    /\ UNCHANGED <<pollVars, clientVars, otherVars>>

\* execStream returns: the stream becomes the response body.
EventsReturns(o) ==
    /\ Returns("events", o)
    /\ resp' = IF o.kind = "throw" THEN Uncaught(o.msg) ELSE Streamed(o)
    /\ pc' = "done"
    /\ Settled
    /\ UNCHANGED <<req, taskId, sandboxKey, sessionId, procs, createdAt, startedAt>>
    /\ UNCHANGED <<pollVars, clientVars, otherVars>>

\* ------------------------------------- one worker instance, many requests
\* The handler has answered and its invocation is over: its locals are gone.
\* The module keeps nothing (tasks-app.ts has no module-level state but the
\* router); the sandbox, its processes and the clock go on.
HandlerEnds ==
    /\ pc = "done"
    /\ served < MaxRequests
    /\ served' = served + 1
    /\ handled' = IF "repoUrl" \in DOMAIN req /\ taskId # "" THEN handled \cup {taskId}
                  ELSE handled
    /\ pc' = "ready"
    /\ req' = None
    /\ taskId' = ""
    /\ sandboxKey' = ""
    /\ calls' = <<>>
    /\ pending' = {}
    /\ returned' = [st \in Steps |-> None]
    /\ sessionId' = JNull
    /\ resp' = NoResponse
    /\ createdAt' = 0
    /\ startedAt' = 0
    /\ caller' = "none"
    /\ maxAttempts' = 0
    /\ intervalMs' = 0
    /\ i' = 0
    /\ pollPc' = "idle"
    /\ isReady' = FALSE
    /\ sleeps' = 0
    /\ UNCHANGED <<procs, now>>
    /\ UNCHANGED <<clientVars, memoVars, pageVars, issued>>

\* A fresh instance may first handle a creation; after any request it goes on
\* with abort, diff and events requests.
NextServer ==
    \/ Next
    \/ NextAbort
    \/ \E r \in DiffRequests, a \in {Handle("sandbox")} \cup Throws : DiffTask(r, a)
    \/ \E o \in DiffOutcomes : DiffReturns(o)
    \/ \E r \in EventsRequests, a \in {Handle("sandbox")} \cup Throws : EventsTask(r, a)
    \/ \E o \in StreamOutcomes : EventsReturns(o)
    \/ HandlerEnds

SpecServer == Init /\ [][NextServer]_vars


\* ------------------------------------------- concurrent creations: the ids
\* A createTask invocation starts while others are in flight: it reads the
\* clock, draws its suffix and asks for the sandbox of that key
\* (tasks-app.ts:109-116).
StartCreation(rnd) ==
    /\ Len(issued) < MaxCreations
    /\ issued' = Append(issued, [time |-> now, rnd |-> rnd,
                                 id |-> NewTaskId(now, rnd), key |-> NewTaskId(now, rnd)])
    /\ UNCHANGED <<handled, served, memoVars, pageVars, serverVars, pollVars, clientVars>>

\* Date.now() moves on by a millisecond.
Tick ==
    /\ now < 1001 + MaxTicks
    /\ now' = now + 1
    /\ UNCHANGED <<pc, req, taskId, sandboxKey, calls, pending, returned, sessionId,
                   resp, procs, createdAt, startedAt>>
    /\ UNCHANGED <<pollVars, clientVars, otherVars>>

NextIds ==
    \/ \E rnd \in RandomSuffixes : StartCreation(rnd)
    \/ Tick

SpecIds == Init /\ [][NextIds]_vars

\* ------------------------------------------------------------- TaskPage
\* location.state.task: the Task of the creation response that HomePage
\* passed on, or nothing when the page is opened by its URL alone.
PageTasks ==
    {None} \cup
    { Task("task-1000-k3x9a",
           [repoUrl |-> "https://example.com/r.git", branch |-> "main", prompt |-> "add readme"],
           ses, 1000, 1004) : ses \in {"ses_1", "ses_2"} }

\* useParams().taskId, task?.sessionId and task?.status || "unknown"
PageTaskId == "task-1000-k3x9a"
PageSessionId == IF pageTask = None THEN "" ELSE pageTask.sessionId
PageServerStatus == IF pageTask = None THEN "unknown" ELSE pageTask.status

getDisplayStatus_EventsOnly(serverStatus, derived, complete) ==
    IF complete THEN (IF derived = "error" THEN "error" ELSE "completed")
    ELSE IF derived = "unknown" THEN serverStatus
    ELSE derived
\* getDisplayStatus (TaskPage.tsx:189-204)
getDisplayStatus(serverStatus, derived, complete) ==
    IF complete THEN (IF derived = "error" THEN "error" ELSE "completed")
    ELSE IF derived = "busy" THEN "running"
    ELSE serverStatus

displayStatus == getDisplayStatus(PageServerStatus, derivedStatus, isComplete)
isRunning == displayStatus = "running"

\* The Abort button is rendered: the page has a task (it returns early
\* without one) and `isRunning &&` holds.
AbortOffered == mounted /\ pageTask # None /\ isRunning

\* encodeURIComponent: unreserved characters stay, the others are escaped
Unreserved ==
    {"a","b","c","d","e","f","g","h","i","j","k","l","m","n","o","p","q","r","s","t",
     "u","v","w","x","y","z","0","1","2","3","4","5","6","7","8","9","_","-",".","~"}
Escape(c) == IF c \in Unreserved THEN c
             ELSE IF c = " " THEN "%20" ELSE IF c = "/" THEN "%2F" ELSE "%3F"
RECURSIVE encodeURIComponent(_)
encodeURIComponent(str) ==
    IF str = "" THEN "" ELSE Escape(SubSeq(str, 1, 1)) \o encodeURIComponent(Slice(str, 1))
\* c.req.query: the parameter's value with its escapes undone
RECURSIVE DecodeQuery(_)
DecodeQuery(str) ==
    IF str = "" THEN ""
    ELSE IF StartsWith(str, "%20") THEN " " \o DecodeQuery(Slice(str, 3))
    ELSE IF StartsWith(str, "%2F") THEN "/" \o DecodeQuery(Slice(str, 3))
    ELSE IF StartsWith(str, "%3F") THEN "?" \o DecodeQuery(Slice(str, 3))
    ELSE SubSeq(str, 1, 1) \o DecodeQuery(Slice(str, 1))

\* The request abortTask's fetch sends, as the worker reads it
PageAbortRequest ==
    [taskId |-> PageTaskId,
     sessionId |-> JStr(DecodeQuery(encodeURIComponent(PageSessionId)))]

InitPage ==
    /\ InitHandler("") /\ InitPoll /\ InitClient
    /\ memo = None /\ memoOf = <<>> /\ memoRuns = 0
    /\ pageTask \in PageTasks
    /\ abortStatus = "idle"
    /\ handled = {} /\ served = 0 /\ issued = <<>>

\* The page renders: useTaskEvents(taskId, task?.sessionId,
\* { enabled: !!task?.sessionId }).
RenderPage == SetArgs(PageTaskId, PageSessionId, PageSessionId # "")

HandleAbort_Unsubscribes ==
    /\ AbortOffered
    /\ abortStatus # "pending"
    /\ PageTaskId # "" /\ PageSessionId # ""
    /\ abortStatus' = "pending"
    /\ es' = "closed"
    /\ isConnected' = FALSE
    /\ UNCHANGED <<mounted, hTaskId, hSessionId, hEnabled, events, error, lastChunk,
                   received, renders, transport, prev>>
    /\ UNCHANGED <<pageTask, memoVars, instanceVars, serverVars, pollVars>>
\* A click on the Abort button (rendered while isRunning, disabled while the
\* mutation is pending): handleAbort starts the mutation.
HandleAbort ==
    /\ AbortOffered
    /\ abortStatus # "pending"
    /\ PageTaskId # "" /\ PageSessionId # ""
    /\ abortStatus' = "pending"
    /\ UNCHANGED <<pageTask, memoVars, instanceVars, serverVars, pollVars, clientVars>>

\* The worker receives the page's abort request.
PageAbortArrives(acquired) ==
    /\ abortStatus = "pending"
    /\ pc = "start"
    /\ AbortTask(PageAbortRequest, acquired)

\* abortTask's fetch resolves: !response.ok throws, otherwise result.data.
AbortSettles ==
    /\ abortStatus = "pending"
    /\ pc = "done"
    /\ abortStatus' = IF resp.status \in 200..299 THEN "success" ELSE "error"
    /\ UNCHANGED <<pageTask, memoVars, instanceVars, serverVars, pollVars, clientVars>>

NextPage ==
    \/ RenderPage
    \/ Unmount
    \/ OnOpen
    \/ \E d \in Chunks : OnMessage(d)
    \/ OnError
    \/ HandleAbort
    \/ \E a \in {Handle("sandbox")} \cup Throws : PageAbortArrives(a)
    \/ \E o \in AbortOutcomes : AbortReturns(o)
    \/ AbortSettles

SpecPage == InitPage /\ [][NextPage]_vars

\* ================================================================ claims
\* ---- vocabulary of the claims
CountStep(st) == Cardinality({k \in 1..Len(calls) : calls[k].step = st})
Issued(st) == \E k \in 1..Len(calls) : calls[k].step = st
HasReturned(st) == returned[st] # None
Threw(st) == HasReturned(st) /\ returned[st].kind = "throw"
GaveResult(st) == HasReturned(st) /\ returned[st].kind = "result"

CloneResultFailed == GaveResult("clone") /\ ~returned["clone"].success
CloneSucceeded == GaveResult("clone") /\ returned["clone"].success
ProbeSucceeded ==
    /\ GaveResult("probe")
    /\ returned["probe"].success
    /\ ~Includes(returned["probe"].stdout, "not ready")
BudgetExhausted == pollPc = "returned" /\ ~isReady

\* the session-creation call answered with a JSON payload
SessionAnswered ==
    GaveResult("session") /\ returned["session"].success /\ returned["session"].stdout.json
SessionPayload == returned["session"].stdout.val
ExpectedShape(v) == v.t = "obj" /\ "id" \in DOMAIN v.f /\ v.f["id"].t = "str"
StringOrMissing(v, key) == key \in DOMAIN v.f => v.f[key].t = "str"
NonEmpty(v, key) == key \in DOMAIN v.f /\ v.f[key] # JStr("")
UpstreamError(v) ==
    /\ v.t = "obj"
    /\ StringOrMissing(v, "error") /\ StringOrMissing(v, "message")
    /\ NonEmpty(v, "error") \/ NonEmpty(v, "message")
UpstreamMessage(v) == IF NonEmpty(v, "error") THEN v.f["error"].v ELSE v.f["message"].v
SessionSucceeded == SessionAnswered /\ ExpectedShape(SessionPayload)

\* a bootstrap step has failed, by a failed result or by an exception
StepFailed ==
    \/ \E st \in Steps : Threw(st)
    \/ CloneResultFailed
    \/ caller = "createTask" /\ BudgetExhausted
    \/ HasReturned("session") /\ ~Threw("session") /\ ~SessionSucceeded

\* ---- C1 --------------------------------------------------------------
\* the native event of a chunk that passes the pipeline
NativeOf(data) == data.val.data.body.val
\* resolved sessionId: the top-level sessionID, otherwise part.sessionID
ResolvedSessionId(native) ==
    LET p == native.f["properties"].f
    IN IF "sessionID" \in DOMAIN p /\ Truthy(p["sessionID"]) THEN p["sessionID"]
       ELSE IF "part" \in DOMAIN p /\ p["part"].t = "obj" /\ "sessionID" \in DOMAIN p["part"].f
       THEN p["part"].f["sessionID"]
       ELSE JUndef

Follows ==
    { <<"clone", "agent">>, <<"agent", "probe">>, <<"probe", "probe">>,
      <<"probe", "session">>, <<"session", "message">> }

\* C2: the calls of createTask on the execution context are a prefix of
\* clone, agent start, 1..maxAttempts probes, session creation, dispatch;
\* a step is issued only when the step before it has returned successfully,
\* only the probe is issued more than once, and at most one awaited call is
\* in progress.
C2_BootstrapOrder ==
    /\ \A k \in 1..Len(calls) :
          IF k = 1 THEN calls[k].step = "clone"
          ELSE <<calls[k - 1].step, calls[k].step>> \in Follows
    /\ \A st \in Steps \ {"probe"} : CountStep(st) <= 1
    /\ CountStep("probe") <= DefaultMaxAttempts
    /\ Cardinality(pending) <= 1
    /\ pending # {} => pending = {calls[Len(calls)].step}
    /\ Issued("agent") => CloneSucceeded
    /\ Issued("probe") => HasReturned("agent") /\ returned["agent"].kind = "process"
    /\ CountStep("probe") >= 2 /\ pending = {"probe"} => ~ProbeSucceeded
    /\ Issued("session") => ProbeSucceeded
    /\ Issued("message") => SessionSucceeded

C2_Witness == resp.status = 201 /\ CountStep("probe") = 3 /\ Len(calls) = 7

\* ---- C3 --------------------------------------------------------------
\* C3: once the clone command has failed (failed result or exception), the
\* only call ever made on the context is the clone, no process was started,
\* and the handler has answered with a failure.
C3_CloneShortCircuit ==
    (CloneResultFailed \/ Threw("clone")) =>
        /\ Len(calls) = 1 /\ calls[1].step = "clone"
        /\ procs = NoProcs
        /\ pending = {}
        /\ pc = "done"
        /\ resp.status = 500

C3_Witness == CloneResultFailed /\ pc = "done" /\ ~Issued("agent")

\* ---- C4 --------------------------------------------------------------
\* C4 as stated: the error message is exactly the clone command's stderr.
C4_Original ==
    CloneResultFailed => resp.status = 500 /\ resp.body.error = returned["clone"].stderr

\* C4 amended: when the clone command returns a failed result, the error
\* message is "Failed to clone repository: " followed by its stderr verbatim.
C4_ClonePrefixed ==
    CloneResultFailed =>
        /\ resp.status = 500
        /\ resp.body.error = "Failed to clone repository: " \o returned["clone"].stderr

C4_Witness ==
    /\ CloneResultFailed
    /\ returned["clone"].stderr = "fatal: repository not found"
    /\ resp.status = 500

\* ---- C5 --------------------------------------------------------------
\* C5: as soon as a bootstrap step has failed (failed result or exception)
\* the handler has answered 500 with a body holding one error string and no
\* Task; a 201 response exists only when no step has failed.
C5_FailureIs500 ==
    /\ StepFailed =>
          /\ pc = "done"
          /\ resp.status = 500
          /\ DOMAIN resp.body = {"error"}
    /\ resp.status = 201 => ~StepFailed

C5_Witness == Threw("message") /\ resp.status = 500 /\ Issued("message")

\* ---- C6 --------------------------------------------------------------
\* C6: a 201 response carries a Task with status running, the session id the
\* agent returned, the key of the execution context as id, and the request's
\* repoUrl, branch and prompt; it implies that clone, agent start, a successful
\* probe, session creation and dispatch each occurred; and a handler that
\* ended without a failed step answered 201.
C6_CreatedTask ==
    /\ resp.status = 201 =>
          LET task == resp.body.data
          IN /\ task.status = "running"
             /\ SessionSucceeded /\ task.sessionId = SessionPayload.f["id"].v
             /\ task.id = sandboxKey
             /\ \A k \in 1..Len(calls) : calls[k].key = task.id
             /\ task.repoUrl = req.repoUrl /\ task.branch = req.branch
             /\ task.prompt = req.prompt
             /\ CloneSucceeded
             /\ HasReturned("agent") /\ returned["agent"].kind = "process"
             /\ ProbeSucceeded
             /\ HasReturned("message") /\ returned["message"].kind = "process"
             /\ \A st \in {"clone", "agent", "session", "message"} : CountStep(st) = 1
    /\ (pc = "done" /\ ~StepFailed) => resp.status = 201

C6_Witness ==
    /\ resp.status = 201
    /\ resp.body.data.sessionId = "ses_2"
    /\ resp.body.data.branch = "dev"

\* ---- C7 --------------------------------------------------------------
\* C7: waitForOpenCode never makes more than maxAttempts probes; a successful
\* probe is the last one and makes it return true; when it is over and no
\* probe has succeeded it has made exactly maxAttempts probes and returned
\* false.
C7_ReadinessBudget ==
    /\ CountStep("probe") <= maxAttempts
    /\ ProbeSucceeded => pollPc = "returned" /\ isReady /\ pending = {}
    /\ (pollPc \in {"returned", "thrown"} /\ ~ProbeSucceeded) =>
          /\ CountStep("probe") = maxAttempts
          /\ pollPc = "returned"
          /\ isReady = FALSE

\* ---- C8 --------------------------------------------------------------
\* C8: a probe whose command call fails or throws is a non-successful
\* attempt: waitForOpenCode goes on to the sleep and never ends with an
\* exception.
C8_ProbeNeverThrows ==
    /\ pollPc # "thrown"
    /\ Threw("probe") => pollPc \in {"sleep", "exec", "returned"}

\* ---- C9 --------------------------------------------------------------
\* C9: a session response of the expected shape continues the bootstrap with
\* its id as sessionId; otherwise creation fails and no dispatch is issued,
\* with the upstream error (or, failing that, message) when the response is
\* an error envelope holding a non-empty one, and else with the generic
\* unexpected-response error carrying the payload.
C9_SessionClassification ==
    /\ (HasReturned("session") /\ ~SessionSucceeded) => ~Issued("message") /\ resp.status = 500
    /\ SessionAnswered =>
        LET v == SessionPayload
        IN IF ExpectedShape(v)
           THEN /\ sessionId = v.f["id"]
                /\ Issued("message")
                /\ resp.status = 500 => Threw("message")
           ELSE /\ resp.status = 500
                /\ pc = "done"
                /\ ~Issued("message")
                /\ sessionId = JNull
                /\ IF UpstreamError(v)
                   THEN /\ Includes(resp.body.error, UpstreamMessage(v))
                        /\ ~StartsWith(resp.body.error, "Unexpected")
                   ELSE /\ StartsWith(resp.body.error, "Unexpected session response format")
                        /\ Includes(resp.body.error, JSONstringify(v))

C9_Witness ==
    /\ SessionAnswered
    /\ SessionPayload = JObj("error" :> JStr("boom") @@ "message" :> JStr("no quota"))
    /\ resp.status = 500

\* ---- C10 -------------------------------------------------------------
\* C10: the dispatch is never issued with the blocking exec, and in the step
\* that produces the 201 response the dispatched message call is running.
C10_DetachedDispatch ==
    [][ /\ \A k \in 1..Len(calls') : calls'[k].step = "message" => calls'[k].op = "startProcess"
        /\ (resp.status # 201 /\ resp'.status = 201) => procs'["message"] = "running" ]_vars

\* the creation response has been returned while the message call still runs
C10_Witness == resp.status = 201 /\ pc = "done" /\ procs["message"] = "running"


\* ---- C11 -------------------------------------------------------------
\* C11 as stated: once session creation has succeeded, the handler's answer
\* is 201 whatever happens in the dispatch step.
C11_Original == (SessionSucceeded /\ pc = "done") => resp.status = 201

\* C11 amended: once the dispatch process has been launched, the answer is
\* 201 with the Task record whatever becomes of the dispatched message call
\* (running, ended, failed), and that answer never changes afterwards; only a
\* launch that throws is answered 500.
C11_DispatchOutcomeUnreported ==
    [][ /\ (SessionSucceeded' /\ HasReturned("message")' /\ ~Threw("message")') =>
              /\ resp'.status = 201
              /\ resp'.body.data.sessionId = SessionPayload'.f["id"].v
        /\ (SessionSucceeded' /\ Threw("message")') => resp'.status = 500
        /\ resp.status = 201 => resp' = resp ]_vars

C11_Witness == resp.status = 201 /\ procs["message"] = "failed"

\* ---- C12 -------------------------------------------------------------
\* C12: the step in which createTask fails issues no call on the context and
\* changes no process, and after the failure the handler never issues a call
\* again: the calls made are exactly those made up to the failing step.
C12_NoRollback ==
    [][ /\ (resp.status # 500 /\ resp'.status = 500) => calls' = calls /\ procs' = procs
        /\ resp.status = 500 => calls' = calls /\ pending' = {} /\ pc' = "done" ]_vars

\* session creation failed and the agent server was left running
C12_Witness ==
    /\ resp.status = 500
    /\ HasReturned("session")
    /\ procs["agent"] = "running"
    /\ Len(calls) >= 4

\* ---- C13 -------------------------------------------------------------
\* what one event decides about the status, "none" if it decides nothing
Decides(e) ==
    LET st == IF "status" \in DOMAIN e.properties THEN e.properties["status"] ELSE JUndef
        ty == IF st.t = "obj" /\ "type" \in DOMAIN st.f THEN st.f["type"] ELSE JUndef
    IN CASE e.type = JStr("session.status") /\ ty = JStr("busy") -> "busy"
         [] e.type = JStr("session.status") /\ ty = JStr("idle") -> "idle"
         [] e.type = JStr("session.idle") -> "completed"
         [] e.type = JStr("error") -> "error"
         [] OTHER -> "none"

Deciding(evs) == { k \in 1..Len(evs) : Decides(evs[k]) # "none" }
LastOf(S) == CHOOSE k \in S : \A j \in S : j <= k

\* C13: the derived status is what the last deciding event of the list
\* decides, "unknown" if the list has none, and isComplete is true exactly
\* when the list contains a session.idle or an error event.
C13_StatusFold ==
    /\ derivedStatus = IF Deciding(events) = {} THEN "unknown"
                       ELSE Decides(events[LastOf(Deciding(events))])
    /\ isComplete <=> \E k \in 1..Len(events) :
                          events[k].type \in {JStr("session.idle"), JStr("error")}

\* a session.status of another type after a busy one leaves the status alone
C13_Witness ==
    /\ Len(events) >= 2
    /\ Decides(events[1]) = "busy"
    /\ events[2].type = JStr("session.status")
    /\ Decides(events[2]) = "none"
    /\ derivedStatus = "busy"
    /\ ~isComplete

\* ---- C14 -------------------------------------------------------------
\* C14: the list [session.status busy, session.idle] derives
\* (completed, true), and once isComplete is true an append to the event
\* list leaves it true.
C14_TerminalMonotonic ==
    /\ [](( /\ Len(events) = 2
            /\ Decides(events[1]) = "busy"
            /\ events[2].type = JStr("session.idle") )
          => (derivedStatus = "completed" /\ isComplete))
    /\ [][ (isComplete /\ Len(events') = Len(events) + 1
            /\ SubSeq(events', 1, Len(events)) = events) => isComplete' ]_vars

\* a busy status arrived after the session went idle
C14_Witness ==
    /\ Len(events) >= 2
    /\ events[1].type = JStr("session.idle")
    /\ Decides(events[2]) = "busy"
    /\ derivedStatus = "busy"
    /\ isComplete

\* ---- C15 -------------------------------------------------------------
\* some chunk of the current stream was dropped by the pipeline
SomeDropped(tr) == \E k \in 1..Len(tr) : ~Pipeline(tr[k]).ok

\* C15: a message whose chunk fails a stage of the pipeline leaves the event
\* list, isConnected, the error and the open stream as they were; and a
\* well-formed chunk of the subscribed session that arrives after a dropped
\* one is appended to the event list.
C15_SilentDrop ==
    [][ received' = received + 1 =>
          IF ~Pipeline(lastChunk').ok
          THEN /\ events' = events
               /\ isConnected' = isConnected
               /\ error' = error
               /\ es' = "open"
          ELSE (SomeDropped(transport) /\ PassesFilter(Pipeline(lastChunk').ev, hSessionId))
                  => events' = Append(events, Pipeline(lastChunk').ev) ]_vars

C15_Witness ==
    /\ Len(transport) = 2
    /\ ~Pipeline(transport[1]).ok
    /\ Pipeline(transport[2]).ok
    /\ events = <<Pipeline(transport[2]).ev>>
    /\ es = "open"
    /\ isConnected

\* ---- C16 -------------------------------------------------------------
\* resolved messageId: the top-level messageID, otherwise part.messageID
ResolvedMessageId(native) ==
    LET p == native.f["properties"].f
    IN IF "messageID" \in DOMAIN p /\ Truthy(p["messageID"]) THEN p["messageID"]
       ELSE IF "part" \in DOMAIN p /\ p["part"].t = "obj" /\ "messageID" \in DOMAIN p["part"].f
       THEN p["part"].f["messageID"]
       ELSE JUndef

RECURSIVE Passed(_, _)
Passed(tr, sid) ==
    IF tr = <<>> THEN <<>>
    ELSE LET r == Pipeline(tr[Len(tr)])
             before == Passed(SubSeq(tr, 1, Len(tr) - 1), sid)
         IN IF r.ok /\ PassesFilter(r.ev, sid) THEN Append(before, r.ev) ELSE before

IsSuffix(a, b) ==
    /\ Len(a) <= Len(b)
    /\ a = SubSeq(b, Len(b) - Len(a) + 1, Len(b))

\* C17: while a subscription is in place, the event list consists of events
\* its stream carried and let through, in the stream's order (what is left of
\* them after a clearEvents), and handling a message only ever appends at
\* the end.
C17_OrderPreservation ==
    /\ []((mounted /\ HasStream(hTaskId, hSessionId, hEnabled))
             => IsSuffix(events, Passed(transport, hSessionId)))
    /\ [][ received' = received + 1 =>
             \/ events' = events
             \/ /\ Len(events') = Len(events) + 1
                /\ SubSeq(events', 1, Len(events)) = events ]_vars

\* ---- C18 -------------------------------------------------------------
\* C18: within one subscription (same arguments, still mounted) a step that
\* ends the stream sets isConnected to false and the error to "Connection
\* lost" and keeps the events; the stream is never put back to connecting,
\* and once it is closed it stays closed, isConnected stays false and no
\* message is delivered any more.
C18_NoAutoReconnect ==
    [][ (renders' = renders /\ mounted /\ mounted') =>
          /\ ((isConnected /\ ~isConnected') \/ (es # "closed" /\ es' = "closed")) =>
                /\ es' = "closed"
                /\ ~isConnected'
                /\ error' = "Connection lost"
                /\ events' = events
          /\ es' = "connecting" => es = "connecting"
          /\ es = "closed" =>
                /\ es' = "closed"
                /\ ~isConnected'
                /\ received' = received
                /\ Len(events') <= Len(events) ]_vars

\* the stream of the subscription in place was lost after events arrived
C18_Witness ==
    /\ mounted
    /\ HasStream(hTaskId, hSessionId, hEnabled)
    /\ es = "closed"
    /\ ~isConnected
    /\ error = "Connection lost"
    /\ Len(events) >= 1

\* ---- C19 -------------------------------------------------------------
NotClosed(seq) == { k \in 1..Len(seq) : seq[k] # "closed" }

\* C19: the EventSource of every earlier effect is closed; without a
\* subscription in place (unmounted, or an argument missing) the last stream
\* is closed and isConnected is false; at most one EventSource is not closed;
\* the cleanup leaves isConnected false; and the event list grows only by a
\* message of the open stream of the subscription in place.
C19_Cancellation ==
    /\ [](/\ NotClosed(prev) = {}
          /\ (~mounted \/ ~HasStream(hTaskId, hSessionId, hEnabled))
                => (es \in {"none", "closed"} /\ ~isConnected)
          /\ Cardinality(NotClosed(prev)) + (IF es \in {"connecting", "open"} THEN 1 ELSE 0) <= 1)
    /\ [][ /\ (renders' # renders \/ (mounted /\ ~mounted')) => ~isConnected'
           /\ Len(events') > Len(events) =>
                 /\ mounted /\ es = "open" /\ HasStream(hTaskId, hSessionId, hEnabled)
                 /\ renders' = renders ]_vars

\* a second subscription is receiving events after the first was closed
C19_Witness ==
    /\ Len(prev) >= 1
    /\ mounted
    /\ es = "open"
    /\ Len(transport) >= 1
    /\ Len(events) >= 1

\* ---- C20 -------------------------------------------------------------
\* C20: an abort request whose sessionId query parameter is missing or empty
\* is answered 400, and the sandbox is neither acquired nor called for it.
C20_AbortRequiresSession ==
    (req # None /\ ~Truthy(req.sessionId)) =>
        /\ pc = "done"
        /\ resp.status = 400
        /\ calls = <<>>
        /\ pending = {}
        /\ sandboxKey = ""
        /\ returned["getSandbox"] = None

\* the parameter is there but empty
C20_Witness ==
    /\ req # None
    /\ req.sessionId = JStr("")
    /\ resp.status = 400

\* ---- C21 -------------------------------------------------------------
IsAbort == req # None /\ "sessionId" \in DOMAIN req

\* C21: an abort request that carries a sessionId, once answered, has made
\* exactly one call, the POST to that session's abort endpoint in the sandbox
\* keyed by the task id, and its answer is 200 with success = true and the
\* task id, whatever that call came to.
C21_BestEffortAbort ==
    (IsAbort /\ Truthy(req.sessionId) /\ pc = "done") =>
        /\ calls = << [op |-> "exec", step |-> "abort", key |-> req.taskId,
                       method |-> "POST",
                       url |-> "http://localhost:4096/session/" \o req.sessionId.v \o "/abort"] >>
        /\ resp.status = 200
        /\ resp.body = [data |-> [success |-> TRUE, taskId |-> req.taskId]]

\* ---- C23 -------------------------------------------------------------
IsDiff == req # None /\ "route" \in DOMAIN req /\ req.route = "diff"

\* C23: a diff request, once answered, has made one call, the working-tree
\* diff command in the sandbox keyed by the task id, and is answered 200 with
\* that command's standard output as the diff; the diff is empty when the
\* command reported no change or failed; the answer is never an error.
C23_DiffPassThrough ==
    (IsDiff /\ pc = "done") =>
        /\ calls = << [op |-> "exec", step |-> "diff", key |-> req.taskId,
                       command |-> "git diff HEAD", cwd |-> "/workspace/repo"] >>
        /\ resp.status = 200
        /\ GaveResult("diff")
        /\ resp.body.data.diff = returned["diff"].stdout
        /\ ~returned["diff"].success => resp.body.data.diff = ""

\* ---- C24 -------------------------------------------------------------
IsEvents == req # None /\ "route" \in DOMAIN req /\ req.route = "events"

\* the calls and the answer of an abort, diff or events request as a function
\* of the request and of what the sandbox returned to it, and of nothing else
CallsFor(r, ret) ==
    IF ret["getSandbox"] = None \/ ret["getSandbox"].kind = "throw" THEN <<>>
    ELSE IF "sessionId" \in DOMAIN r THEN <<AbortCall(r.taskId, r.sessionId.v)>>
    ELSE IF r.route = "diff" THEN <<DiffCall(r.taskId)>>
    ELSE <<EventsCall(r.taskId)>>

AnswerFor(r, ret) ==
    LET st == IF "sessionId" \in DOMAIN r THEN "abort" ELSE r.route
    IN IF "sessionId" \in DOMAIN r /\ ~Truthy(r.sessionId) THEN SessionRequired
       ELSE IF ret["getSandbox"].kind = "throw" THEN Uncaught(ret["getSandbox"].msg)
       ELSE IF ret[st].kind = "throw" THEN Uncaught(ret[st].msg)
       ELSE CASE st = "abort" -> Aborted(r.taskId)
              [] st = "diff" -> Diffed(r.taskId, DiffText(ret[st]))
              [] st = "events" -> Streamed(ret[st])

\* C24: whatever requests the instance has answered before (a creation for
\* this task id, for another one, or none), an answered abort, diff or events
\* request has made the calls and got the answer that its arguments and the
\* sandbox's returns determine.
C24_StatelessServer ==
    (pc = "done" /\ (IsAbort \/ IsDiff \/ IsEvents)) =>
        /\ calls = CallsFor(req, returned)
        /\ resp = AnswerFor(req, returned)

\* an abort for a task this instance never created, after it created another
C24_Witness ==
    /\ pc = "done"
    /\ IsAbort
    /\ resp.status = 200
    /\ handled # {}
    /\ req.taskId \notin handled

\* ---- C22 -------------------------------------------------------------
\* C22: no step of an abort (the click, the worker handling the request, the
\* mutation settling) changes the subscriber's event list, isConnected, error
\* or stream; and a well-formed event of the session that arrives once an
\* abort has been issued is appended to the list.
C22_AbortLeavesSubscription ==
    [][ /\ (abortStatus' # abortStatus \/ pc' # pc) =>
              /\ events' = events
              /\ isConnected' = isConnected
              /\ error' = error
              /\ es' = es
              /\ <<mounted, hTaskId, hSessionId, hEnabled>>' = <<mounted, hTaskId, hSessionId, hEnabled>>
        /\ (abortStatus # "idle" /\ received' = received + 1
            /\ Pipeline(lastChunk').ok /\ PassesFilter(Pipeline(lastChunk').ev, hSessionId)) =>
              events' = Append(events, Pipeline(lastChunk').ev) ]_vars

\* the terminal event was delivered after the abort had been answered
C22_Witness ==
    /\ abortStatus = "success"
    /\ isConnected
    /\ isComplete
    /\ events[Len(events)].type \in {JStr("session.idle"), JStr("error")}

\* ---- C29 -------------------------------------------------------------
Terminal(evs) ==
    \E k \in 1..Len(evs) : evs[k].type \in {JStr("session.idle"), JStr("error")}

\* C29: the Abort button is clicked only while the page displays "running";
\* once the list holds a session.idle or error event the display status is
\* "completed" or "error" and the button is not offered, in that state and,
\* whatever arrives, in every later one; before any such event a derived
\* status of busy, idle or unknown displays as "running" for a task created
\* as running.
C29_AbortAvailability ==
    /\ [](/\ AbortOffered => displayStatus = "running"
          /\ Terminal(events) => (displayStatus \in {"completed", "error"} /\ ~AbortOffered)
          /\ (~Terminal(events) /\ pageTask # None /\ pageTask.status = "running")
                => (derivedStatus \in {"busy", "idle", "unknown"} /\ displayStatus = "running"))
    /\ [][ /\ Terminal(events) => (Terminal(events') /\ ~AbortOffered')
           /\ (abortStatus # "pending" /\ abortStatus' = "pending") => displayStatus = "running" ]_vars

\* the agent reported idle by a status event, nothing terminal yet
C29_Witness ==
    /\ AbortOffered
    /\ derivedStatus = "idle"
    /\ ~Terminal(events)

\* ---- C25 -------------------------------------------------------------
\* C25 as stated: any two creations have different task ids and acquire
\* different sandboxes.
C25_Original ==
    \A m, n \in 1..Len(issued) :
        m # n => (issued[m].id # issued[n].id /\ issued[m].key # issued[n].key)

\* C25 amended: the sandbox key of a creation is its task id, and two
\* creations have the same id exactly when they read the same millisecond
\* and drew the same random suffix.
C25_UniqueUpToSuffix ==
    \A m, n \in 1..Len(issued) :
        /\ issued[m].key = issued[m].id
        /\ (issued[m].id = issued[n].id)
              <=> (issued[m].time = issued[n].time /\ issued[m].rnd = issued[n].rnd)

\* two creations in the same millisecond told apart by their suffix
C25_Witness ==
    /\ Len(issued) >= 2
    /\ issued[1].time = issued[2].time
    /\ issued[1].rnd # issued[2].rnd
    /\ issued[1].key # issued[2].key

\* ---- C26 -------------------------------------------------------------
AgentFailedToStart ==
    resp = [status |-> 500, body |-> [error |-> "OpenCode server failed to start within timeout"]]

\* the readiness loop is over and no probe found the agent ready
NeverReady == Issued("probe") /\ pc = "done" /\ ~ProbeSucceeded

\* C26: when calls keep returning, a creation that has begun is eventually
\* answered 201 or 500; it never makes more than the default budget of
\* probes; and when no probe finds the agent ready the answer is the
\* agent-failed-to-start error, after exactly that many probes and with no
\* session-creation and no dispatch call made.
C26_BoundedCreation ==
    /\ (pc # "start") ~> (pc = "done" /\ resp.status \in {201, 500})
    /\ [](/\ CountStep("probe") <= DefaultMaxAttempts
          /\ NeverReady =>
                /\ AgentFailedToStart
                /\ CountStep("probe") = DefaultMaxAttempts
                /\ ~Issued("session")
                /\ ~Issued("message"))

C28_SleepsBetweenProbes ==
    (pollPc \in {"returned", "thrown"} /\ CountStep("probe") >= 1) =>
        sleeps = CountStep("probe") - 1

\* ---- C30 -------------------------------------------------------------
\* C30: whenever isConnected is true the error is null and the effect's
\* stream is open; and a step in which the stream of the subscription in
\* place is lost ends with isConnected false and an error set.
C30_ConnectionState ==
    /\ [](isConnected => (error = "null" /\ es = "open" /\ mounted))
    /\ [][ (renders' = renders /\ mounted' /\ es \in {"connecting", "open"} /\ es' # es
            /\ es' # "open")
              => (~isConnected' /\ error' # "null") ]_vars

\* connected again, with the error cleared, in a later subscription
C30_Witness ==
    /\ isConnected
    /\ error = "null"
    /\ Len(prev) >= 1
    /\ Len(events) >= 1

\* ---- C31 -------------------------------------------------------------
\* C31: while a subscription is in place, every event of the event list has
\* a resolved sessionId that is absent or is the session subscribed to.
C31_SessionIsolation ==
    (mounted /\ HasStream(hTaskId, hSessionId, hEnabled)) =>
        \A k \in 1..Len(events) : PassesFilter(events[k], hSessionId)

\* ---- C32 -------------------------------------------------------------
\* the event ends the task: session.idle or error
Ends(event) == event.type \in {JStr("session.idle"), JStr("error")}

\* C32 as stated: isComplete holds exactly when the derived status is
\* completed or error.
C32_Original == isComplete <=> derivedStatus \in {"completed", "error"}

\* C32: a derived status of completed or error implies isComplete; isComplete
\* holds exactly when the list holds a session.idle or an error event; and
\* when isComplete holds with another status, that status is busy or idle and
\* was decided by a session.status event that follows such an event.
C32_DerivedPair ==
    /\ derivedStatus \in {"completed", "error"} => isComplete
    /\ isComplete <=> \E k \in 1..Len(events) : Ends(events[k])
    /\ (isComplete /\ derivedStatus \notin {"completed", "error"}) =>
          /\ derivedStatus \in {"busy", "idle"}
          /\ \E j, k \in 1..Len(events) :
                /\ j < k
                /\ Ends(events[j])
                /\ Decides(events[k]) = derivedStatus
                /\ \A m \in (k + 1)..Len(events) : Decides(events[m]) = "none"

\* the session reported an idle status after it had ended
C32_Witness ==
    /\ Len(events) = 2
    /\ events[1].type = JStr("session.idle")
    /\ isComplete
    /\ derivedStatus = "idle"

====
